---- MODULE Spec2Model ----
(***************************************************************************)
(* Model of the Course class of studentGradesAnalyzer.js: the roster of    *)
(* Student records, the grade objects they reference, and the query,       *)
(* update, delete and export methods.                                      *)
(*                                                                         *)
(* A grade object (the listOfGrades of a student) is a JavaScript object:  *)
(* it lives on the heap and is held by reference.  It is modelled as an    *)
(* address into `heap`; its contents are a sequence of <<subject, grade>>   *)
(* entries in the object's own key order (insertion order).  Grades are     *)
(* small integers.  A rounded average is kept in hundredths.  An object     *)
(* that nothing refers to any more is garbage: its heap cell is cleared.    *)
(***************************************************************************)
EXTENDS Integers, Sequences, FiniteSets, TLC

\* Number of addStudent calls explored (caps nextId).
MaxStudents == 2
\* Largest roster handed to sortStudentsAverage on its own.
MaxSorted == 3
\* Largest number of subjects and largest grade of the grade objects handed
\* to highestAndLowestGrade on its own.
MaxKeys == 3
MaxGrade == 3
\* toFixed(2): two decimal places, so averages are counted in hundredths.
Scale == 100

Names == {"A", "B"}
Subjects == {"math", "science"}
Grades == {1, 2}
Thresholds == {Scale * g : g \in Grades}

VARIABLES listOfStudents, nextId, heap, ret, held

vars == <<listOfStudents, nextId, heap, ret, held>>

----------------------------------------------------------------------------
(* JavaScript values that are not numbers, arrays or plain objects.        *)

Null == [type |-> "null"]
Undefined == [type |-> "undefined"]
TypeError == [type |-> "TypeError"]
NaN == [nan |-> TRUE, val |-> 0]
Num(v) == [nan |-> FALSE, val |-> v]
Str(s) == [type |-> "string", text |-> s]
Arr(s) == [type |-> "array", items |-> s]

----------------------------------------------------------------------------
(* Plain objects used as subject -> grade mappings.                        *)

Range(s) == {s[i] : i \in 1..Len(s)}

ObjectKeys(o) == [i \in 1..Len(o) |-> o[i][1]]
ObjectValues(o) == [i \in 1..Len(o) |-> o[i][2]]
ObjectEntries(o) == o

HasKey(o, k) == \E i \in 1..Len(o) : o[i][1] = k

\* o[k] = v: an existing key keeps its place, a new key goes last.
SetProperty(o, k, v) ==
    IF HasKey(o, k)
    THEN [i \in 1..Len(o) |-> IF o[i][1] = k THEN <<k, v>> ELSE o[i]]
    ELSE Append(o, <<k, v>>)

RECURSIVE ObjectAssign(_, _)
\* Object.assign(target, source): every own entry of source, in source order.
ObjectAssign(target, source) ==
    IF Len(source) = 0 THEN target
    ELSE ObjectAssign(SetProperty(target, source[1][1], source[1][2]), Tail(source))

\* The grade objects a caller passes: at most one entry per subject, in either
\* key order, the empty object included (addStudent validates nothing).
GradeObjects ==
    {<<>>}
    \cup {<<<<s, g>>>> : s \in Subjects, g \in Grades}
    \cup {o \in {<<<<s, g>>, <<t, h>>>> : s \in Subjects, t \in Subjects,
                                           g \in Grades, h \in Grades} :
             o[1][1] # o[2][1]}

\* The objects a caller passes as newGrades: as GradeObjects, the subjects
\* in the order in which the grade objects of the example course list them.
NewGradeObjects ==
    {o \in GradeObjects : Len(o) = 2 => o[1][1] = "math"}

----------------------------------------------------------------------------
(* Student records and the roster.                                         *)

\* new Student(id, name, listOfGrades); listOfGrades is a heap address.
Student(id, name, listOfGrades) ==
    [id |-> id, name |-> name, listOfGrades |-> listOfGrades]

\* A mutant of NextIdAfterAdd: the counter is not advanced.
NextIdStuck(n) == n

\* this.nextId++
NextIdAfterAdd(n) == n + 1

\* A mutant of FilterOutName: only the first match is removed.
FilterOutFirst(students, name) ==
    LET hits == {i \in 1..Len(students) : students[i].name = name}
    IN  IF hits = {} THEN students
        ELSE LET f == CHOOSE i \in hits : \A j \in hits : i <= j
             IN  SubSeq(students, 1, f - 1) \o SubSeq(students, f + 1, Len(students))

\* listOfStudents.filter((student) => student.name !== name)
FilterOutName(students, name) ==
    SelectSeq(students, LAMBDA st : st.name # name)

\* forEach((student, index) => (student.id = index + 1))
Renumber(students) ==
    [i \in 1..Len(students) |-> [students[i] EXCEPT !.id = i]]

\* getStudentsList(): the message on an empty roster, else an array of new
\* objects {id, name, listOfGrades}; listOfGrades is the same reference.
GetStudentsList(students) ==
    IF Len(students) = 0 THEN Str("The list is empty.")
    ELSE Arr([i \in 1..Len(students) |->
                [id |-> students[i].id, name |-> students[i].name,
                 listOfGrades |-> students[i].listOfGrades]])

\* A mutant of ArrayFindName: the last match instead of the first.
ArrayFindLast(items, name) ==
    LET hits == {i \in 1..Len(items) : items[i].name = name}
    IN  IF hits = {} THEN Undefined
        ELSE items[CHOOSE i \in hits : \A j \in hits : j <= i]

\* items.find((student) => student.name === name)
ArrayFindName(items, name) ==
    LET hits == {i \in 1..Len(items) : items[i].name = name}
    IN  IF hits = {} THEN Undefined
        ELSE items[CHOOSE i \in hits : \A j \in hits : i <= j]

\* getStudentByName(name): .find is called on whatever getStudentsList()
\* returned; a string has no find method, so the call throws a TypeError.
GetStudentByName(students, name) ==
    LET list == GetStudentsList(students)
    IN  IF list.type # "array" THEN TypeError
        ELSE LET found == ArrayFindName(list.items, name)
             IN  IF found = Undefined THEN Null ELSE found

----------------------------------------------------------------------------
(* Averages.                                                               *)

RECURSIVE SumSeq(_)
SumSeq(s) == IF Len(s) = 0 THEN 0 ELSE s[1] + SumSeq(Tail(s))

\* calculateAverage: the quotient sum / count, kept as the pair <<sum, count>>;
\* <<0, 0>> is 0 / 0.
CalculateAverage(o) == <<SumSeq(ObjectValues(o)), Len(ObjectKeys(o))>>

\* Number(parseFloat(q).toFixed(2)) in hundredths; 0 / 0 is NaN and stays NaN.
ToFixed2(q) ==
    IF q[2] = 0 THEN NaN
    ELSE Num((2 * Scale * q[1] + q[2]) \div (2 * q[2]))

\* overallAverage()
OverallAverage(students, h) ==
    [i \in 1..Len(students) |->
        [name |-> students[i].name,
         average |-> ToFixed2(CalculateAverage(h[students[i].listOfGrades]))]]

\* a > b on numbers: false when either side is NaN.
Greater(a, b) == ~a.nan /\ ~b.nan /\ a.val > b.val

\* a - b on numbers.
Minus(a, b) == IF a.nan \/ b.nan THEN NaN ELSE Num(a.val - b.val)

----------------------------------------------------------------------------
(* Highest and lowest subjects.                                            *)

\* Math.max(...grades) and Math.min(...grades) of a non-empty list.
MathMax(grades) == CHOOSE m \in Range(grades) : \A g \in Range(grades) : g <= m
MathMin(grades) == CHOOSE m \in Range(grades) : \A g \in Range(grades) : m <= g

\* .map(([subject, grade]) => ({ subject, grade }))
SubjectGrades(entries) ==
    [i \in 1..Len(entries) |-> [subject |-> entries[i][1], grade |-> entries[i][2]]]

\* A mutant of EntriesWithGrade: only the first entry with that grade.
EntriesFirstWithGrade(o, grade) ==
    LET all == SelectSeq(ObjectEntries(o), LAMBDA e : e[2] = grade)
    IN  IF Len(all) = 0 THEN all ELSE <<all[1]>>

\* Object.entries(listOfGrades).filter(([_, grade]) => grade === m)
EntriesWithGrade(o, grade) ==
    SelectSeq(ObjectEntries(o), LAMBDA e : e[2] = grade)

\* highestAndLowestGrade(listOfGrades).  Of an empty object Math.max is
\* -Infinity and Math.min is Infinity, which no entry equals.
HighestAndLowestGrade(o) ==
    IF Len(o) = 0 THEN [highestSubjects |-> <<>>, lowestSubjects |-> <<>>]
    ELSE LET grades == ObjectValues(o)
             maxGrade == MathMax(grades)
             minGrade == MathMin(grades)
         IN  [highestSubjects |-> SubjectGrades(EntriesWithGrade(o, maxGrade)),
              lowestSubjects |-> SubjectGrades(EntriesWithGrade(o, minGrade))]

\* getOverallStatistics()
GetOverallStatistics(students, h) ==
    [i \in 1..Len(students) |->
        [name |-> students[i].name,
         highestAndLowestSubjects |->
             HighestAndLowestGrade(h[students[i].listOfGrades])]]

\* getStudentStatistics(name)
GetStudentStatistics(students, h, name) ==
    LET student == GetStudentByName(students, name)
    IN  IF student = TypeError THEN TypeError
        ELSE IF student = Null THEN Null
        ELSE LET hl == HighestAndLowestGrade(h[student.listOfGrades])
             IN  [name |-> student.name,
                  average |-> ArrayFindName(OverallAverage(students, h), name).average,
                  highestSubjects |-> hl.highestSubjects,
                  lowestSubjects |-> hl.lowestSubjects]

----------------------------------------------------------------------------
(* Threshold filter and sort.                                              *)

\* ({ average }) => average > threshold
AboveThreshold(average, threshold) == Greater(average, threshold)

\* getStudentsAverageThreshold(threshold); every name of overallAverage() is
\* the name of a student, so getStudentByName finds one.
GetStudentsAverageThreshold(students, h, threshold) ==
    LET kept == SelectSeq(OverallAverage(students, h),
                          LAMBDA e : AboveThreshold(e.average, threshold))
    IN  [i \in 1..Len(kept) |->
            [name |-> kept[i].name,
             average |-> kept[i].average,
             listOfGrades |-> GetStudentByName(students, kept[i].name).listOfGrades]]

\* (a, b) => descending ? b.average - a.average : a.average - b.average
CompareAverage(a, b, descending) ==
    IF descending THEN Minus(b.average, a.average) ELSE Minus(a.average, b.average)

\* Array.prototype.sort reads a comparator result of NaN as +0.
SortOrder(v) == IF v.nan THEN 0 ELSE v.val

RECURSIVE InsertPoint(_, _, _, _)
\* Where x goes in the sorted prefix: after the last element it does not
\* precede.
InsertPoint(sorted, x, j, descending) ==
    IF j = 0 THEN 0
    ELSE IF SortOrder(CompareAverage(x, sorted[j], descending)) < 0
         THEN InsertPoint(sorted, x, j - 1, descending)
         ELSE j

\* A mutant of ArraySort: equal elements end up in reverse order.
RECURSIVE ArraySortUnstable(_, _)
ArraySortUnstable(items, descending) ==
    IF Len(items) <= 1 THEN items
    ELSE LET x == items[1]
             rest == ArraySortUnstable(Tail(items), descending)
             before == SelectSeq(rest, LAMBDA y :
                          SortOrder(CompareAverage(y, x, descending)) <= 0)
             after == SelectSeq(rest, LAMBDA y :
                          SortOrder(CompareAverage(y, x, descending)) > 0)
         IN  before \o <<x>> \o after

RECURSIVE ArraySort(_, _)
\* Array.prototype.sort with the comparator above: a stable insertion sort
\* (the sort of Node 12 and later is stable).
ArraySort(items, descending) ==
    IF Len(items) <= 1 THEN items
    ELSE LET n == Len(items)
             sorted == ArraySort(SubSeq(items, 1, n - 1), descending)
             x == items[n]
             p == InsertPoint(sorted, x, n - 1, descending)
         IN  SubSeq(sorted, 1, p) \o <<x>> \o SubSeq(sorted, p + 1, n - 1)

\* sortStudentsAverage(descending)
SortStudentsAverage(students, h, descending) ==
    ArraySort(OverallAverage(students, h), descending)

----------------------------------------------------------------------------
(* The CSV report.                                                         *)

RECURSIVE Join(_, _)
\* Array.prototype.join
Join(strs, sep) ==
    IF Len(strs) = 0 THEN ""
    ELSE IF Len(strs) = 1 THEN strs[1]
    ELSE strs[1] \o sep \o Join(Tail(strs), sep)

\* `${average}`: a number of hundredths printed without trailing zeros.
NumberToString(a) ==
    IF a.nan THEN "NaN"
    ELSE LET whole == a.val \div Scale
             frac == a.val % Scale
         IN  IF frac = 0 THEN ToString(whole)
             ELSE IF frac % 10 = 0 THEN ToString(whole) \o "." \o ToString(frac \div 10)
             ELSE IF frac < 10 THEN ToString(whole) \o ".0" \o ToString(frac)
             ELSE ToString(whole) \o "." \o ToString(frac)

\* .map(({ subject, grade }) => `${subject} (${grade})`).join(" / ")
SubjectsStr(subjectGrades) ==
    Join([i \in 1..Len(subjectGrades) |->
             subjectGrades[i].subject \o " (" \o ToString(subjectGrades[i].grade) \o ")"],
         " / ")

\* `${name}, ${average}, "${highestStr}", "${lowestStr}"`
CsvRow(name, average, highestAndLowestSubjects) ==
    name \o ", " \o NumberToString(average)
         \o ", \"" \o SubjectsStr(highestAndLowestSubjects.highestSubjects)
         \o "\", \"" \o SubjectsStr(highestAndLowestSubjects.lowestSubjects) \o "\""

Headers == "Name, Average, Highest Subjects, LowestSubjects\n"

\* The rows of exportStatisticsToCSV: for each entry of overallAverage() the
\* statistics entry found by name.
CsvRows(students, h) ==
    LET overallAverage == OverallAverage(students, h)
        statistics == GetOverallStatistics(students, h)
    IN  [i \in 1..Len(overallAverage) |->
            CsvRow(overallAverage[i].name, overallAverage[i].average,
                   ArrayFindName(statistics, overallAverage[i].name)
                       .highestAndLowestSubjects)]

\* csvContent, the text handed to fs.writeFileSync
CsvContent(students, h) == Headers \o Join(CsvRows(students, h), "\n")

----------------------------------------------------------------------------
(* The course as a state machine.  ret is what the last call returned (for  *)
(* exportStatisticsToCSV: what it wrote); held is a result of an earlier    *)
(* call that the caller kept in a variable of its own.                      *)

\* The heap addresses a returned value refers to.
ValueRefs(v) ==
    IF "listOfGrades" \in DOMAIN v THEN {v.listOfGrades}
    ELSE IF "items" \in DOMAIN v
         THEN {v.items[i].listOfGrades :
                  i \in {j \in 1..Len(v.items) : "listOfGrades" \in DOMAIN v.items[j]}}
         ELSE {}

\* The addresses reachable from the roster, the last result and the kept one.
Reachable(students, r, k) ==
    {students[i].listOfGrades : i \in 1..Len(students)}
    \cup ValueRefs(r.val)
    \cup (IF "val" \in DOMAIN k THEN ValueRefs(k.val) ELSE {})

\* The heap with the cells of unreachable objects cleared.
Collect(h, live) == [a \in 1..Len(h) |-> IF a \in live THEN h[a] ELSE <<>>]

Init ==
    /\ listOfStudents = <<>>
    /\ nextId = 1
    /\ heap = <<>>
    /\ ret = [op |-> "constructor", val |-> Undefined]
    /\ held = Undefined

\* addStudent(name, listOfGrades): the caller's object goes on the heap and
\* the new Student refers to it.
AddStudent(name, o) ==
    /\ nextId <= MaxStudents
    /\ heap' = Append(heap, o)
    /\ listOfStudents' =
           Append(listOfStudents, Student(nextId, name, Len(heap) + 1))
    /\ nextId' = NextIdAfterAdd(nextId)
    /\ ret' = [op |-> "addStudent", val |-> Undefined]
    /\ UNCHANGED held

\* deleteStudent(name)
DeleteStudent(name) ==
    /\ listOfStudents' = Renumber(FilterOutName(listOfStudents, name))
    /\ ret' = [op |-> "deleteStudent", val |-> Undefined]
    /\ heap' = Collect(heap, Reachable(listOfStudents', ret', held))
    /\ UNCHANGED <<nextId, held>>

\* updateStudentGrades from line 203 on, student being what getStudentByName
\* gave: null and an error are passed on, else newGrades is merged into the
\* grade object the view refers to and the view is returned.
UpdateFound(student, name, newGrades) ==
    /\ ret' = [op |-> "updateStudentGrades", name |-> name, val |-> student]
    /\ heap' = IF student = TypeError \/ student = Null THEN heap
               ELSE [heap EXCEPT ![student.listOfGrades] =
                        ObjectAssign(heap[student.listOfGrades], newGrades)]
    /\ UNCHANGED <<listOfStudents, nextId, held>>

\* updateStudentGrades(name, newGrades)
UpdateStudentGrades(name, newGrades) ==
    UpdateFound(GetStudentByName(listOfStudents, name), name, newGrades)

\* const x = course.getStudentsList() when keep, else the bare call
GetStudentsListCall(keep) ==
    /\ ret' = [op |-> "getStudentsList", val |-> GetStudentsList(listOfStudents)]
    /\ held' = IF keep THEN ret' ELSE held
    /\ UNCHANGED <<listOfStudents, nextId, heap>>

\* getStudentByName(name)
GetStudentByNameCall(name, keep) ==
    /\ ret' = [op |-> "getStudentByName", name |-> name,
               val |-> GetStudentByName(listOfStudents, name)]
    /\ held' = IF keep THEN ret' ELSE held
    /\ UNCHANGED <<listOfStudents, nextId, heap>>

\* getStudentsAverageThreshold(threshold)
GetStudentsAverageThresholdCall(threshold, keep) ==
    /\ ret' = [op |-> "getStudentsAverageThreshold", threshold |-> threshold,
               val |-> Arr(GetStudentsAverageThreshold(listOfStudents, heap,
                                                       Num(threshold)))]
    /\ held' = IF keep THEN ret' ELSE held
    /\ UNCHANGED <<listOfStudents, nextId, heap>>

\* getStudentStatistics(name)
GetStudentStatisticsCall(name) ==
    /\ ret' = [op |-> "getStudentStatistics", name |-> name,
               val |-> GetStudentStatistics(listOfStudents, heap, name)]
    /\ UNCHANGED <<listOfStudents, nextId, heap, held>>

\* sortStudentsAverage(descending)
SortStudentsAverageCall(descending) ==
    /\ ret' = [op |-> "sortStudentsAverage", descending |-> descending,
               val |-> Arr(SortStudentsAverage(listOfStudents, heap, descending))]
    /\ UNCHANGED <<listOfStudents, nextId, heap, held>>

\* exportStatisticsToCSV(filename)
ExportStatisticsToCSV ==
    /\ ret' = [op |-> "exportStatisticsToCSV",
               val |-> Str(CsvContent(listOfStudents, heap))]
    /\ UNCHANGED <<listOfStudents, nextId, heap, held>>

\* The calls that change the course.
Mutation ==
    \/ \E name \in Names, o \in GradeObjects : AddStudent(name, o)
    \/ \E name \in Names : DeleteStudent(name)
    \/ \E name \in Names, newGrades \in NewGradeObjects :
           UpdateStudentGrades(name, newGrades)

\* Every call, results used on the spot.
Next ==
    \/ Mutation
    \/ GetStudentsListCall(FALSE)
    \/ \E name \in Names : GetStudentByNameCall(name, FALSE)
    \/ \E threshold \in Thresholds : GetStudentsAverageThresholdCall(threshold, FALSE)
    \/ \E name \in Names : GetStudentStatisticsCall(name)
    \/ \E descending \in BOOLEAN : SortStudentsAverageCall(descending)
    \/ ExportStatisticsToCSV

Spec == Init /\ [][Next]_vars

\* The subjects of the example course, in the order of its grade objects.
AllSubjects ==
    <<"math", "science", "history", "spanish", "computerScience", "business">>

\* Grade objects of up to MaxKeys distinct subjects with grades 1..MaxGrade,
\* in every key order.
ExtremeInputs ==
    LET keys == {AllSubjects[i] : i \in 1..MaxKeys}
        seqs == UNION {[1..n -> keys \X (1..MaxGrade)] : n \in 0..MaxKeys}
    IN  {o \in seqs : \A i \in 1..Len(o), j \in 1..Len(o) :
                          i # j => o[i][1] # o[j][1]}

\* A course without students and one grade object of the caller's, at
\* address 1.
ExtremesInit ==
    \E o \in ExtremeInputs :
        /\ listOfStudents = <<>>
        /\ nextId = 1
        /\ heap = <<o>>
        /\ ret = [op |-> "constructor", val |-> Undefined]
        /\ held = Undefined

\* highestAndLowestGrade(listOfGrades) on that grade object
HighestAndLowestGradeCall ==
    /\ ret' = [op |-> "highestAndLowestGrade", listOfGrades |-> heap[1],
               val |-> HighestAndLowestGrade(heap[1])]
    /\ UNCHANGED <<listOfStudents, nextId, heap, held>>

ExtremesNext == HighestAndLowestGradeCall

\* highestAndLowestGrade alone, over ExtremeInputs.
ExtremesSpec == ExtremesInit /\ [][ExtremesNext]_vars

\* The course under add, delete and update alone.
MutationSpec == Init /\ [][Mutation]_vars

\* The grade objects whose subjects are the first ones of the example course,
\* in its order: an average depends on neither the subjects nor their order.
SortObjects ==
    {o \in GradeObjects : \A i \in 1..Len(o) : o[i][1] = AllSubjects[i]}

\* The courses that up to MaxSorted addStudent calls build.
SortInit ==
    \E n \in 0..MaxSorted :
        \E names \in [1..n -> Names], objects \in [1..n -> SortObjects] :
            /\ listOfStudents = [i \in 1..n |-> Student(i, names[i], i)]
            /\ nextId = n + 1
            /\ heap = objects
            /\ ret = IF n = 0 THEN [op |-> "constructor", val |-> Undefined]
                     ELSE [op |-> "addStudent", val |-> Undefined]
            /\ held = Undefined

SortNext == \E descending \in BOOLEAN : SortStudentsAverageCall(descending)

\* sortStudentsAverage alone, on each of those courses.
SortSpec == SortInit /\ [][SortNext]_vars

\* The course with a caller that keeps what the read calls return.
SnapshotNext ==
    \/ Mutation
    \/ GetStudentsListCall(TRUE)
    \/ \E name \in Names : GetStudentByNameCall(name, TRUE)
    \/ \E threshold \in Thresholds : GetStudentsAverageThresholdCall(threshold, TRUE)

SnapshotSpec == Init /\ [][SnapshotNext]_vars

----------------------------------------------------------------------------
(* Properties.                                                             *)

Roster == 1..Len(listOfStudents)

\* Some student of the roster is called name.
HasName(students, name) == \E i \in 1..Len(students) : students[i].name = name

\* C1: after any sequence of addStudent and deleteStudent calls the ids of
\* the roster are 1..N in roster order, also for a student added after a
\* deletion.
C1_IdsAreOneToN == \A i \in Roster : listOfStudents[i].id = i

\* C5: no two students of the roster have the same id, and nextId is greater
\* than every id in the roster.
C5_IdsUniqueBelowNextId ==
    /\ \A i \in Roster, j \in Roster :
           i # j => listOfStudents[i].id # listOfStudents[j].id
    /\ \A i \in Roster : listOfStudents[i].id < nextId

\* A student added after a deletion: its id is not its place in the roster.
C5_Witness ==
    /\ ret.op = "addStudent"
    /\ \E i \in Roster : listOfStudents[i].id # i

\* The place of subject in the key order of o.
KeyPlace(o, subject) == CHOOSE i \in 1..Len(o) : o[i][1] = subject

\* list holds exactly the entries of o whose grade is g, in o's key order.
ExactlyTheSubjectsAt(list, o, g) ==
    /\ \A k \in 1..Len(list) :
           /\ HasKey(o, list[k].subject)
           /\ o[KeyPlace(o, list[k].subject)][2] = list[k].grade
           /\ list[k].grade = g
    /\ \A i \in 1..Len(o) :
           o[i][2] = g => \E k \in 1..Len(list) : list[k].subject = o[i][1]
    /\ \A k \in 1..Len(list), l \in 1..Len(list) :
           k < l => KeyPlace(o, list[k].subject) < KeyPlace(o, list[l].subject)

\* C8: of a non-empty grade object, highestSubjects is exactly the subjects
\* at the maximum grade and lowestSubjects exactly those at the minimum, all
\* tied subjects included, each list in the object's key order.
C8_ExtremesAreAllTiedSubjects ==
    (ret.op = "highestAndLowestGrade" /\ Len(ret.listOfGrades) > 0) =>
        LET o == ret.listOfGrades
            top == CHOOSE g \in 1..MaxGrade :
                       /\ \E i \in 1..Len(o) : o[i][2] = g
                       /\ \A i \in 1..Len(o) : o[i][2] <= g
            bottom == CHOOSE g \in 1..MaxGrade :
                       /\ \E i \in 1..Len(o) : o[i][2] = g
                       /\ \A i \in 1..Len(o) : o[i][2] >= g
        IN  /\ ExactlyTheSubjectsAt(ret.val.highestSubjects, o, top)
            /\ ExactlyTheSubjectsAt(ret.val.lowestSubjects, o, bottom)

\* Three subjects, the first and the third tied at the top above the second.
C8_Witness ==
    /\ ret.op = "highestAndLowestGrade"
    /\ Len(ret.listOfGrades) = 3
    /\ Len(ret.val.highestSubjects) = 2
    /\ Len(ret.val.lowestSubjects) = 1
    /\ ret.val.highestSubjects[1].subject = ret.listOfGrades[1][1]
    /\ ret.val.highestSubjects[2].subject = ret.listOfGrades[3][1]

\* The places of the students not called name, and the k-th of them.
Kept(students, name) == {i \in 1..Len(students) : students[i].name # name}
KthKept(students, name, k) ==
    CHOOSE i \in Kept(students, name) :
        Cardinality({j \in Kept(students, name) : j <= i}) = k

\* What C3 says of a step from a roster to the roster after deleteStudent(name).
DeletedEveryMatch(name) ==
    /\ Len(listOfStudents') = Cardinality(Kept(listOfStudents, name))
    /\ \A k \in 1..Len(listOfStudents') :
           LET now == listOfStudents'[k]
               was == listOfStudents[KthKept(listOfStudents, name, k)]
           IN  /\ now.name = was.name
               /\ now.listOfGrades = was.listOfGrades
               /\ heap'[now.listOfGrades] = heap[was.listOfGrades]
               /\ now.id = k

HasEntry(o, e) == \E j \in 1..Len(o) : o[j] = e

\* The place of the first student called name.
FirstNamed(students, name) ==
    CHOOSE i \in 1..Len(students) :
        /\ students[i].name = name
        /\ \A j \in 1..i - 1 : students[j].name # name

\* What C4 says of a step that is updateStudentGrades(name, newGrades).
UpdatedFirstMatchOnly(name, newGrades) ==
    LET a == listOfStudents[FirstNamed(listOfStudents, name)].listOfGrades
    IN  /\ listOfStudents' = listOfStudents
        /\ Len(heap') = Len(heap)
        /\ \A b \in 1..Len(heap) : b # a => heap'[b] = heap[b]
        /\ \A i \in 1..Len(newGrades) : HasEntry(heap'[a], newGrades[i])
        /\ \A i \in 1..Len(heap[a]) :
               HasKey(newGrades, heap[a][i][1]) \/ HasEntry(heap'[a], heap[a][i])

C2_NotFoundReturnsNull ==
    [][/\ (/\ ret'.op \in {"getStudentByName", "getStudentStatistics",
                           "updateStudentGrades"}
           /\ ~HasName(listOfStudents, ret'.name))
          => (/\ ret'.val = Null
              /\ listOfStudents' = listOfStudents
              /\ heap' = heap)
       /\ (ret'.op = "getStudentsList" /\ Len(listOfStudents) = 0)
          => ret'.val = Str("The list is empty.")]_vars

\* The entries C6 describes: one per student whose average is above the
\* threshold, in roster order, with that student's own grade object.
OwnEntriesAbove(threshold) ==
    LET own == [i \in Roster |->
                   [name |-> listOfStudents[i].name,
                    average |-> ToFixed2(CalculateAverage(
                                    heap[listOfStudents[i].listOfGrades])),
                    grades |-> heap[listOfStudents[i].listOfGrades]]]
    IN  SelectSeq(own, LAMBDA e : ~e.average.nan /\ e.average.val > threshold)

\* C6: getStudentsAverageThreshold(threshold) returns, in roster order, one
\* entry for exactly the students whose rounded average is strictly greater
\* than threshold, each with that same student's own grades, also when
\* students share a name.
C6_ThresholdEntriesCarryOwnGrades ==
    ret.op = "getStudentsAverageThreshold" =>
        LET got == ret.val.items
            want == OwnEntriesAbove(ret.threshold)
        IN  /\ Len(got) = Len(want)
            /\ \A k \in 1..Len(got) :
                   /\ got[k].name = want[k].name
                   /\ got[k].average = want[k].average
                   /\ heap[got[k].listOfGrades] = want[k].grades

\* The row C10 describes for the student at place i: all four fields are its
\* own.
OwnCsvRow(i) ==
    LET o == heap[listOfStudents[i].listOfGrades]
    IN  CsvRow(listOfStudents[i].name, ToFixed2(CalculateAverage(o)),
               HighestAndLowestGrade(o))

\* C10: the CSV report is the header line followed by exactly one row per
\* student in roster order, and the name, average, highest subjects and
\* lowest subjects of a row are those of one and the same student, also when
\* students share a name.
C10_CsvRowsAreOwnRows ==
    ret.op = "exportStatisticsToCSV" =>
        ret.val = Str(Headers \o Join([i \in Roster |-> OwnCsvRow(i)], "\n"))

\* a before b is out of order: a > b ascending, a < b descending.
OutOfOrder(a, b, descending) ==
    IF descending THEN Greater(b, a) ELSE Greater(a, b)

\* a === b on numbers.
SameNumber(a, b) == ~a.nan /\ ~b.nan /\ a.val = b.val

\* sorted is a rearrangement of averages with no two entries out of order, in
\* which entries of equal average keep the order they have in averages.
StablySorted(sorted, averages, descending) ==
    /\ Len(sorted) = Len(averages)
    /\ \E f \in Permutations(1..Len(averages)) :
           /\ \A k \in 1..Len(sorted) : sorted[k] = averages[f[k]]
           /\ \A k \in 1..Len(sorted), l \in 1..Len(sorted) :
                  k < l =>
                      /\ ~OutOfOrder(sorted[k].average, sorted[l].average, descending)
                      /\ SameNumber(sorted[k].average, sorted[l].average)
                             => f[k] < f[l]

\* What C7 says of a step that is sortStudentsAverage(descending).
SortedAndRosterUntouched ==
    /\ StablySorted(ret'.val.items, OverallAverage(listOfStudents, heap),
                    ret'.descending)
    /\ listOfStudents' = listOfStudents
    /\ heap' = heap

NoAverageIsNaN ==
    \A i \in Roster : ~OverallAverage(listOfStudents, heap)[i].average.nan

Dereferenced(v, h) ==
    IF "listOfGrades" \in DOMAIN v
    THEN [name |-> v.name, id |-> v.id, grades |-> h[v.listOfGrades]]
    ELSE IF "items" \in DOMAIN v
    THEN [i \in 1..Len(v.items) |->
             [v.items[i] EXCEPT !.listOfGrades = h[v.items[i].listOfGrades]]]
    ELSE v

\* What the caller sees in the result it kept.
Visible(k, h) == IF "val" \in DOMAIN k THEN Dereferenced(k.val, h) ELSE k

\* C9: a result of getStudentsList, getStudentByName or
\* getStudentsAverageThreshold is a snapshot: whatever is called on the
\* course afterwards, the names, ids and grades seen in it stay as they were
\* when it was returned.
C9_KeptResultsAreSnapshots ==
    [][held' = held => Visible(held, heap') = Visible(held, heap)]_vars

====
